---- MODULE Spec2Model ----
(***************************************************************************)
(* Model of game_data.py: the retrying fetcher (fetch_url) and the         *)
(* orchestrator (main) that fans page scrapes out over a thread pool and   *)
(* merges the rows into the spreadsheet.                                   *)
(*                                                                         *)
(* Two specifications:                                                     *)
(*   SpecFetch  one call fetch_url(url, max_retries), one step per         *)
(*              statement group of its loop body;                          *)
(*   Spec       one run of main(); a call of fetch_url appears there by    *)
(*              its three outcomes (text, None, an exception), which are   *)
(*              the outcomes SpecFetch reaches.                            *)
(***************************************************************************)
EXTENDS Integers, Sequences, FiniteSets, TLC

VARIABLES
    \* ---- fetch_url ----
    fpc,          \* position in fetch_url: "loop" "get" "status" "done" ("idle": no call)
    max_retries,  \* the parameter
    attempt,      \* the loop variable
    resp,         \* the response of the current attempt
    requests,     \* number of requests.get calls issued
    responses,    \* the responses received, in order
    jitters,      \* number of pre-request sleeps (time.sleep(random.uniform(1, 3)))
    sleeps,       \* durations of the retry-after sleeps, in order
    fresult,      \* "pending", "text", "None", or "raised" (an exception left the call)
    \* ---- main ----
    pc,              \* position in main
    excel_file,      \* vgchartz_games.xlsx: whether it exists, and its data rows
    genres,          \* the list get_genres returned
    gi,              \* index in genres of the genre the for loop is at
    total,           \* <<>> for None, <<n>> for the int n
    total_pages,
    page,            \* the next page number the submit loop submits
    futures,         \* futures[p]: the future of page p of this genre's executor
    work_queue,      \* the executor's queue of tasks not yet taken by a thread
    num_threads,     \* worker threads the executor has started
    running,         \* the tasks worker threads are executing
    early,           \* as_completed: futures found finished when it started
    waiter_finished, \* as_completed: the waiter's finished_futures
    genre_data,
    all_data,
    \* ---- history ----
    file0,           \* the file as it was when the run started
    pages_used,      \* page tasks dispatched so far in the run (capped by MaxPages)
    finish_order,    \* pages of this genre in the order their tasks completed
    collect_order,   \* pages of this genre in the order their results were collected
    early0,          \* the futures as_completed found finished when it started
    hist             \* per genre the for loop is through with: its total, the
                     \* number of page tasks dispatched, its genre_data

fvars == <<fpc, max_retries, attempt, resp, requests, responses, jitters, sleeps, fresult>>

mvars == <<pc, excel_file, genres, gi, total, total_pages, page, futures, work_queue,
           num_threads, running, early, waiter_finished, genre_data, all_data,
           file0, pages_used, finish_order, collect_order, early0, hist>>

vars == <<fvars, mvars>>

\* ------------------------------------------------------------------ bounds
MaxRetriesArg == 4
MaxGenres == 2
MaxPages == 3      \* page tasks per run
MaxRows == 2       \* rows a results page yields
MaxExisting == 2   \* rows of the file found at the start

\* ------------------------------------------------------------- fetch_url
DefaultMaxRetries == 5
DefaultRetryAfter == 30

\* A Python value that is an int or a str (a str is a sequence of characters).
PyIntValue(n) == [type |-> "int", int |-> n, str |-> <<>>]
PyStrValue(s) == [type |-> "str", int |-> 0, str |-> s]

\* The Retry-After header of a response: <<>> when the header is absent,
\* <<text>> when it is present.
Absent == <<>>
NoResp == [status |-> 0, retry_after |-> Absent]

Digits == {"0", "1", "2", "3", "4", "5", "6", "7", "8", "9"}

DigitVal(c) ==
    CASE c = "0" -> 0 [] c = "1" -> 1 [] c = "2" -> 2 [] c = "3" -> 3
      [] c = "4" -> 4 [] c = "5" -> 5 [] c = "6" -> 6 [] c = "7" -> 7
      [] c = "8" -> 8 [] c = "9" -> 9

\* Header values are strings, held as sequences of characters.
RECURSIVE LStrip(_)
LStrip(s) == IF s # <<>> /\ Head(s) = " " THEN LStrip(Tail(s)) ELSE s

RECURSIVE RStrip(_)
RStrip(s) ==
    IF s # <<>> /\ s[Len(s)] = " " THEN RStrip(SubSeq(s, 1, Len(s) - 1)) ELSE s

RECURSIVE DigitsValue(_, _)
DigitsValue(s, acc) ==
    IF s = <<>> THEN acc ELSE DigitsValue(Tail(s), 10 * acc + DigitVal(Head(s)))

\* int(x) of Python: an int is returned as it is; a string is stripped of
\* surrounding blanks, may carry one sign, and must then be decimal digits;
\* anything else raises ValueError.
PyInt(x) ==
    IF x.type = "int" THEN [ok |-> TRUE, val |-> x.int]
    ELSE LET t == RStrip(LStrip(x.str))
             signed == t # <<>> /\ Head(t) \in {"-", "+"}
             body == IF signed THEN Tail(t) ELSE t
         IN  IF body # <<>> /\ \A i \in 1..Len(body) : body[i] \in Digits
             THEN [ok |-> TRUE,
                   val |-> IF signed /\ Head(t) = "-"
                           THEN 0 - DigitsValue(body, 0)
                           ELSE DigitsValue(body, 0)]
             ELSE [ok |-> FALSE, val |-> 0]

\* resp.headers.get("Retry-After", 30)
HeaderGet(r, default) ==
    IF r.retry_after = Absent THEN PyIntValue(default) ELSE PyStrValue(r.retry_after[1])

Statuses == {200, 429, 404, 503}

\* Retry-After as servers send it: delay seconds, or an HTTP-date; plus
\* malformed values.
RetryAfterValues ==
    { Absent,
      << <<"7">> >>,
      << <<" ", "1", "2">> >>,
      << <<"-", "1">> >>,
      << <<"W", "e", "d", ",", " ", "2", "1">> >> }

Responses == [status : Statuses, retry_after : RetryAfterValues]

MaxRetriesValues == (0..MaxRetriesArg) \cup {DefaultMaxRetries}

\* The state of main while only fetch_url is looked at.
MainIdle ==
    /\ pc = "idle"
    /\ excel_file = [exists |-> FALSE, rows |-> <<>>]
    /\ file0 = [exists |-> FALSE, rows |-> <<>>]
    /\ genres = <<>>
    /\ gi = 0
    /\ total = <<>>
    /\ total_pages = 0
    /\ page = 0
    /\ futures = <<>>
    /\ work_queue = <<>>
    /\ num_threads = 0
    /\ running = {}
    /\ early = {}
    /\ waiter_finished = <<>>
    /\ genre_data = <<>>
    /\ all_data = <<>>
    /\ pages_used = 0
    /\ finish_order = <<>>
    /\ collect_order = <<>>
    /\ early0 = {}
    /\ hist = <<>>

InitFetch ==
    /\ MainIdle
    /\ fpc = "loop"
    /\ max_retries \in MaxRetriesValues
    /\ attempt = 0
    /\ resp = NoResp
    /\ requests = 0
    /\ responses = <<>>
    /\ jitters = 0
    /\ sleeps = <<>>
    /\ fresult = "pending"

\* for attempt in range(1, max_retries + 1): time.sleep(random.uniform(1, 3))
NextAttempt ==
    /\ fpc = "loop"
    /\ attempt < max_retries
    /\ attempt' = attempt + 1
    /\ jitters' = jitters + 1
    /\ fpc' = "get"
    /\ UNCHANGED mvars
    /\ UNCHANGED <<max_retries, resp, requests, responses, sleeps, fresult>>

\* the loop is exhausted: return None
Exhausted ==
    /\ fpc = "loop"
    /\ attempt >= max_retries
    /\ fpc' = "done"
    /\ fresult' = "None"
    /\ UNCHANGED mvars
    /\ UNCHANGED <<max_retries, attempt, resp, requests, responses, jitters, sleeps>>

\* resp = requests.get(url): a response arrives
GetResponds ==
    /\ fpc = "get"
    /\ \E r \in Responses :
        /\ resp' = r
        /\ responses' = Append(responses, r)
    /\ requests' = requests + 1
    /\ fpc' = "status"
    /\ UNCHANGED mvars
    /\ UNCHANGED <<max_retries, attempt, jitters, sleeps, fresult>>

\* resp = requests.get(url): requests raises (connection error, timeout, ...);
\* nothing in fetch_url catches it
GetRaises ==
    /\ fpc = "get"
    /\ requests' = requests + 1
    /\ fpc' = "done"
    /\ fresult' = "raised"
    /\ UNCHANGED mvars
    /\ UNCHANGED <<max_retries, attempt, resp, responses, jitters, sleeps>>

\* if resp.status_code == 200: return resp.text
Ok200 ==
    /\ fpc = "status"
    /\ resp.status = 200
    /\ fpc' = "done"
    /\ fresult' = "text"
    /\ UNCHANGED mvars
    /\ UNCHANGED <<max_retries, attempt, resp, requests, responses, jitters, sleeps>>

\* elif resp.status_code == 429: retry_after = resp.headers.get(...);
\* time.sleep(int(retry_after)).  int() raises ValueError on a value that is
\* no integer, time.sleep raises ValueError on a negative one.
Throttled ==
    /\ fpc = "status"
    /\ resp.status = 429
    /\ LET retry_after == HeaderGet(resp, DefaultRetryAfter)
           n == PyInt(retry_after)
       IN  IF n.ok /\ n.val >= 0
           THEN /\ sleeps' = Append(sleeps, n.val)
                /\ fpc' = "loop"
                /\ fresult' = fresult
           ELSE /\ sleeps' = sleeps
                /\ fpc' = "done"
                /\ fresult' = "raised"
    /\ UNCHANGED mvars
    /\ UNCHANGED <<max_retries, attempt, resp, requests, responses, jitters>>

\* else: print(...); break  -- then return None
OtherStatusRetries ==
    /\ fpc = "status"
    /\ resp.status \notin {200, 429}
    /\ fpc' = "loop"
    /\ UNCHANGED mvars
    /\ UNCHANGED <<max_retries, attempt, resp, requests, responses, jitters, sleeps, fresult>>

OtherStatus ==
    /\ fpc = "status"
    /\ resp.status \notin {200, 429}
    /\ fpc' = "done"
    /\ fresult' = "None"
    /\ UNCHANGED mvars
    /\ UNCHANGED <<max_retries, attempt, resp, requests, responses, jitters, sleeps>>

NextFetch ==
    \/ NextAttempt
    \/ Exhausted
    \/ GetResponds
    \/ GetRaises
    \/ Ok200
    \/ Throttled
    \/ OtherStatus

SpecFetch == InitFetch /\ [][NextFetch]_vars

\* ------------------------------------------------------------------ main
RESULTS_PER_PAGE == 200
WiderPool == 2 + 1

max_workers == 2

\* What a call of fetch_url gives its caller (fresult of SpecFetch).
FetchOutcomes == {"text", "None", "raised"}

FetchIdle ==
    /\ fpc = "idle"
    /\ max_retries = DefaultMaxRetries
    /\ attempt = 0
    /\ resp = NoResp
    /\ requests = 0
    /\ responses = <<>>
    /\ jitters = 0
    /\ sleeps = <<>>
    /\ fresult = "pending"

\* ---- rows and the spreadsheet

\* The row scrape_page builds from the k-th data row of page p of a genre:
\* [console, game_name, publisher, total_shipped, total_sales, release_date,
\*  last_update, genre].  The site prints N/A where it has no figure.
ScrapedRow(genre, p, k) ==
    << "Wii",
       "Game " \o genre \o " " \o ToString(p) \o "." \o ToString(k),
       "Nintendo",
       IF k = 1 THEN "N/A" ELSE "1.50m",
       "0.30m",
       "19th Nov 06",
       "N/A",
       genre >>

\* Rows a file of an earlier run holds.
OldRowAt(i) ==
    CASE i % 3 = 1 -> <<"Unknown", "Tetris", "", "N/A", "N/A", "N/A", "N/A", "Puzzle">>
      [] i % 3 = 2 -> <<"Wii", "Wii Sports", "Nintendo", "82.90m", "82.90m",
                        "19th Nov 06", "06th Jan 20", "Sports">>
      [] i % 3 = 0 -> ScrapedRow("Action", 1, 1)

ExistingFiles ==
    {[exists |-> FALSE, rows |-> <<>>]}
    \cup {[exists |-> TRUE, rows |-> [i \in 1..n |-> OldRowAt(i)]] : n \in {0, MaxExisting}}

\* A DataFrame cell: a string, or NaN.
StrCell(s) == [na |-> FALSE, s |-> s]
NaNCell == [na |-> TRUE, s |-> ""]

\* pd.DataFrame(all_data, columns=[...]): the scraped strings as they are
DataFrame(rows) ==
    [i \in 1..Len(rows) |-> [j \in 1..Len(rows[i]) |-> StrCell(rows[i][j])]]

\* The strings read_excel takes for missing values (keep_default_na=True).
NAStrings ==
    {"", "#N/A", "#N/A N/A", "#NA", "-1.#IND", "-1.#QNAN", "-NaN", "-nan",
     "1.#IND", "1.#QNAN", "<NA>", "N/A", "NA", "NULL", "NaN", "None", "n/a",
     "nan", "null"}

\* pd.read_excel(excel_file): a cell whose text is one of NAStrings is NaN
ReadExcel(file) ==
    [i \in 1..Len(file.rows) |->
        [j \in 1..Len(file.rows[i]) |->
            IF file.rows[i][j] \in NAStrings THEN NaNCell ELSE StrCell(file.rows[i][j])]]

\* pd.concat([df_existing, df_current], ignore_index=True)
Concat(df_existing, df_current) == df_existing \o df_current

\* df.to_excel(excel_file, index=False): NaN is written as an empty cell
ToExcel(df) ==
    [exists |-> TRUE,
     rows |-> [i \in 1..Len(df) |->
                 [j \in 1..Len(df[i]) |-> IF df[i][j].na THEN "" ELSE df[i][j].s]]]

\* ---- inputs

GenreAt(i) == IF i % 2 = 1 THEN "Action" ELSE "Puzzle"

\* The option values of the genre select; the source does not filter
\* duplicates.
GenreLists == {[i \in 1..n |-> GenreAt(i)] : n \in 0..MaxGenres}

\* Totals of 0, 1, 2 and MaxPages pages (450 results are 3 pages).
Totals == {0, 200, 201, 200 * MaxPages - 150}

\* math.ceil(total / RESULTS_PER_PAGE)
TotalPagesFloor(n) == n \div RESULTS_PER_PAGE

TotalPages(n) ==
    IF n % RESULTS_PER_PAGE = 0 THEN n \div RESULTS_PER_PAGE
    ELSE n \div RESULTS_PER_PAGE + 1

\* What scrape_page(url, genre) ends with: an exception out of fetch_url, or
\* the list of rows (empty when the fetch gave None or no table was found).
ScrapeOutcomes(task) ==
    {[exc |-> TRUE, rows |-> <<>>]}
    \cup {[exc |-> FALSE,
           rows |-> [k \in 1..n |-> ScrapedRow(genres[task.g], task.page, k)]]
          : n \in {0, MaxRows}}

Init ==
    /\ FetchIdle
    /\ pc = "get_genres"
    /\ excel_file \in ExistingFiles
    /\ file0 = excel_file
    /\ genres = <<>>
    /\ gi = 0
    /\ total = <<>>
    /\ total_pages = 0
    /\ page = 0
    /\ futures = <<>>
    /\ work_queue = <<>>
    /\ num_threads = 0
    /\ running = {}
    /\ early = {}
    /\ waiter_finished = <<>>
    /\ genre_data = <<>>
    /\ all_data = <<>>
    /\ pages_used = 0
    /\ finish_order = <<>>
    /\ collect_order = <<>>
    /\ early0 = {}
    /\ hist = <<>>

evars == <<futures, work_queue, num_threads, running, early, waiter_finished,
           finish_order, collect_order, early0>>

\* genres = get_genres(); if not genres: return
GetGenres ==
    /\ pc = "get_genres"
    /\ \E o \in FetchOutcomes :
        IF o = "raised"
        THEN /\ pc' = "aborted"
             /\ UNCHANGED <<genres, gi>>
        ELSE \E gs \in (IF o = "text" THEN GenreLists ELSE {<<>>}) :
                /\ genres' = gs
                /\ IF gs = <<>>
                   THEN pc' = "exit" /\ gi' = gi
                   ELSE pc' = "count" /\ gi' = 1
    /\ UNCHANGED <<excel_file, total, total_pages, page, genre_data, all_data,
                   file0, pages_used, hist>>
    /\ UNCHANGED evars
    /\ UNCHANGED fvars

\* the for loop moves to the next genre, or is over
NextGenre == IF gi < Len(genres) THEN "count" ELSE "write"

\* total = get_total_results(genre); if total is None: continue;
\* total_pages = math.ceil(total / RESULTS_PER_PAGE); genre_data = [];
\* with ThreadPoolExecutor(max_workers=max_workers) as executor
CountDiscovery ==
    /\ pc = "count"
    /\ \E o \in FetchOutcomes :
        IF o = "raised"
        THEN /\ pc' = "aborted"
             /\ UNCHANGED <<gi, total, total_pages, page, genre_data, pages_used, hist>>
        ELSE \E t \in {<<>>} \cup (IF o = "text" THEN {<<n>> : n \in Totals} ELSE {}) :
                /\ total' = t
                /\ IF t = <<>>
                   THEN /\ pc' = NextGenre
                        /\ gi' = gi + 1
                        /\ hist' = Append(hist, [total |-> t, npages |-> Len(futures),
                                                 genre_data |-> <<>>])
                        /\ UNCHANGED <<total_pages, page, genre_data, pages_used>>
                   ELSE /\ pages_used + TotalPages(t[1]) <= MaxPages
                        /\ total_pages' = TotalPages(t[1])
                        /\ pages_used' = pages_used + TotalPages(t[1])
                        /\ page' = 1
                        /\ genre_data' = <<>>
                        /\ pc' = "submit"
                        /\ UNCHANGED <<gi, hist>>
    /\ UNCHANGED <<excel_file, genres, all_data, file0>>
    /\ UNCHANGED evars
    /\ UNCHANGED fvars

\* executor.submit(scrape_page, url, genre): the future is created, the task
\* queued, and a worker thread started unless max_workers threads run or an
\* idle thread is there to take the task (_adjust_thread_count).
Submit ==
    /\ pc = "submit"
    /\ page <= total_pages
    /\ futures' = Append(futures, [state |-> "PENDING", exc |-> FALSE, rows |-> <<>>])
    /\ work_queue' = Append(work_queue, [g |-> gi, page |-> page])
    /\ \/ /\ num_threads < max_workers
          /\ num_threads' = num_threads + 1
       \/ /\ \/ num_threads >= max_workers
             \/ Cardinality(running) < num_threads
          /\ num_threads' = num_threads
    /\ page' = page + 1
    /\ UNCHANGED <<pc, excel_file, genres, gi, total, total_pages, genre_data, all_data,
                   file0, pages_used, hist>>
    /\ UNCHANGED <<running, early, waiter_finished, finish_order, collect_order, early0>>
    /\ UNCHANGED fvars

\* a worker thread of the pool takes the next task off the queue
WorkerStart ==
    /\ work_queue # <<>>
    /\ Cardinality(running) < num_threads
    /\ running' = running \cup {Head(work_queue)}
    /\ work_queue' = Tail(work_queue)
    /\ futures' = [futures EXCEPT ![Head(work_queue).page].state = "RUNNING"]
    /\ UNCHANGED <<pc, excel_file, genres, gi, total, total_pages, page, genre_data,
                   all_data, file0, pages_used, hist>>
    /\ UNCHANGED <<num_threads, early, waiter_finished, finish_order, collect_order, early0>>
    /\ UNCHANGED fvars

\* scrape_page returns or raises in the worker thread: the future is set
\* finished and an installed as_completed waiter is told
WorkerFinish ==
    /\ \E task \in running :
        /\ \E o \in ScrapeOutcomes(task) :
              futures' = [futures EXCEPT ![task.page] =
                             [state |-> "FINISHED", exc |-> o.exc, rows |-> o.rows]]
        /\ running' = running \ {task}
        /\ finish_order' = Append(finish_order, task.page)
        /\ waiter_finished' = IF pc = "collect"
                              THEN Append(waiter_finished, task.page)
                              ELSE waiter_finished
    /\ UNCHANGED <<pc, excel_file, genres, gi, total, total_pages, page, genre_data,
                   all_data, file0, pages_used, hist>>
    /\ UNCHANGED <<work_queue, num_threads, early, collect_order, early0>>
    /\ UNCHANGED fvars

\* for future in as_completed(future_to_page): the generator starts; the
\* futures already finished are set aside to be yielded first, the waiter is
\* installed on all of them
AsCompletedStart ==
    /\ pc = "submit"
    /\ page > total_pages
    /\ early' = {p \in 1..Len(futures) : futures[p].state = "FINISHED"}
    /\ early0' = early'
    /\ waiter_finished' = <<>>
    /\ pc' = "collect"
    /\ UNCHANGED <<excel_file, genres, gi, total, total_pages, page, genre_data,
                   all_data, file0, pages_used, hist>>
    /\ UNCHANGED <<futures, work_queue, num_threads, running, finish_order, collect_order>>
    /\ UNCHANGED fvars

\* genre_data.extend(page_data)
GenreDataAssign(data, page_data) == page_data

GenreDataExtend(data, page_data) == data \o page_data

\* try: page_data = future.result(); genre_data.extend(page_data)
CollectResult(p) ==
    /\ genre_data' = GenreDataExtend(genre_data, futures[p].rows)
    /\ pc' = pc

\* except Exception as e: print(...)
CollectFailedPropagates(p) ==
    /\ genre_data' = genre_data
    /\ pc' = "aborted"

CollectFailed(p) ==
    /\ genre_data' = genre_data
    /\ pc' = pc

\* The futures as_completed may yield next: those found finished at its
\* start come first, in the order of a set; the others in the order in which
\* they finished.
NextYield ==
    IF early # {} THEN early
    ELSE IF waiter_finished # <<>> THEN {Head(waiter_finished)} ELSE {}

\* one iteration of the as_completed loop
Collect ==
    /\ pc = "collect"
    /\ \E p \in NextYield :
        /\ IF p \in early
           THEN early' = early \ {p} /\ waiter_finished' = waiter_finished
           ELSE early' = early /\ waiter_finished' = Tail(waiter_finished)
        /\ collect_order' = Append(collect_order, p)
        /\ IF futures[p].exc THEN CollectFailed(p) ELSE CollectResult(p)
    /\ UNCHANGED <<excel_file, genres, gi, total, total_pages, page, all_data,
                   file0, pages_used, hist>>
    /\ UNCHANGED <<futures, work_queue, num_threads, running, finish_order, early0>>
    /\ UNCHANGED fvars

\* all_data.extend(genre_data)
AllDataExtendFront(data, more) == more \o data

AllDataExtend(data, more) == data \o more

\* as_completed has yielded every future, so the loop ends; the with block
\* is left (executor.shutdown(wait=True): the worker threads end);
\* all_data.extend(genre_data); the for loop goes on with a new executor and
\* a new future_to_page
FinishGenre ==
    /\ pc = "collect"
    /\ Len(collect_order) = Len(futures)
    /\ all_data' = AllDataExtend(all_data, genre_data)
    /\ hist' = Append(hist, [total |-> total, npages |-> Len(futures),
                             genre_data |-> genre_data])
    /\ gi' = gi + 1
    /\ pc' = NextGenre
    /\ futures' = <<>>
    /\ num_threads' = 0
    /\ early' = {}
    /\ waiter_finished' = <<>>
    /\ finish_order' = <<>>
    /\ collect_order' = <<>>
    /\ early0' = {}
    /\ UNCHANGED <<excel_file, genres, total, total_pages, page, genre_data,
                   file0, pages_used, work_queue, running>>
    /\ UNCHANGED fvars

\* df_current = pd.DataFrame(all_data, ...); if os.path.exists(excel_file):
\* read, concat, write back; else: write df_current
Write ==
    /\ pc = "write"
    /\ LET df_current == DataFrame(all_data)
       IN  IF excel_file.exists
           THEN excel_file' = ToExcel(Concat(ReadExcel(excel_file), df_current))
           ELSE excel_file' = ToExcel(df_current)
    /\ pc' = "done"
    /\ UNCHANGED <<genres, gi, total, total_pages, page, genre_data, all_data,
                   file0, pages_used, hist>>
    /\ UNCHANGED evars
    /\ UNCHANGED fvars

Next ==
    \/ GetGenres
    \/ CountDiscovery
    \/ Submit
    \/ WorkerStart
    \/ WorkerFinish
    \/ AsCompletedStart
    \/ Collect
    \/ FinishGenre
    \/ Write

Spec == Init /\ [][Next]_vars

\* ------------------------------------------------------ claims on fetch_url

Throttled429(r) == r.status = 429

\* C1: a call of fetch_url in which every request is answered and every
\* response has status 429 ends with exactly max_retries requests issued, a
\* retry-after sleep after each response (30 when the header is absent) and
\* the result None.
C1_ThrottledRetriesToCeiling ==
    ( /\ fpc = "done"
      /\ responses # <<>>
      /\ requests = Len(responses)
      /\ \A i \in 1..Len(responses) : Throttled429(responses[i]) )
    => /\ requests = max_retries
       /\ fresult = "None"
       /\ Len(sleeps) = Len(responses)
       /\ \A i \in 1..Len(responses) :
            responses[i].retry_after = Absent => sleeps[i] = 30

\* C2: a response whose status is neither 200 nor 429 is the last request of
\* the call: it is the response of the current attempt, no request and no
\* retry-after sleep follows it (the only sleeps are those of the 429
\* responses before it), and the call returns None.
C2_OtherStatusFailsAtOnce ==
    \A i \in 1..Len(responses) :
        responses[i].status \notin {200, 429}
        => /\ i = Len(responses)
           /\ requests = i
           /\ attempt = i
           /\ Len(sleeps) = i - 1
           /\ fpc \in {"status", "done"}
           /\ fpc = "done" => fresult = "None"

\* Reached: a 429 is retried, the next response is a 503, and the call has
\* returned None.
C2_Witness ==
    /\ fpc = "done"
    /\ Len(responses) = 2
    /\ responses[1].status = 429
    /\ responses[2].status = 503
    /\ fresult = "None"
    /\ max_retries > 2

\* C3: no exception leaves fetch_url: a finished call has returned the body
\* text or None.
C3_NoExceptionEscapes ==
    fpc = "done" => fresult \in {"text", "None"}

\* -------------------------------------------------------- claims on main

\* as_completed has yielded every future of the genre at hand
AllCollected == pc = "collect" /\ Len(collect_order) = Len(futures)

\* the step that leaves the with block and finalizes the genre
GenreFinalized == pc = "collect" /\ pc' \in {"count", "write"}

IsPermutation(seq, n) ==
    /\ Len(seq) = n
    /\ \A p \in 1..n : \E i \in 1..n : seq[i] = p

\* the row lists of the futures that did not fail, concatenated in an order
RECURSIVE RowsInOrder(_, _)
RowsInOrder(order, futs) ==
    IF order = <<>> THEN <<>>
    ELSE (IF futs[Head(order)].exc THEN <<>> ELSE futs[Head(order)].rows)
         \o RowsInOrder(Tail(order), futs)

RECURSIVE FlattenHist(_)
FlattenHist(h) == IF h = <<>> THEN <<>> ELSE Head(h).genre_data \o FlattenHist(Tail(h))

SomePageFailed == \E p \in 1..Len(futures) : futures[p].exc

\* C4: when the run has written the table, it holds the R rows of the file
\* found (none when there was no file), unchanged and in their order,
\* followed by the N rows of all_data in their order: R + N rows.
C4_MergeKeepsExistingRows ==
    pc = "done"
    => LET R == Len(file0.rows)
           N == Len(all_data)
       IN  /\ excel_file.exists
           /\ Len(excel_file.rows) = R + N
           /\ \A i \in 1..R : excel_file.rows[i] = file0.rows[i]
           /\ \A j \in 1..N : excel_file.rows[R + j] = all_data[j]

\* C5: a run of main that is over has written the result table.
C5_RunEndsWithWrite ==
    pc \in {"done", "exit", "aborted"} => pc = "done"

\* C6: collecting the result of a page task that raised leaves main in the
\* collecting loop with genre_data as it was and its sibling tasks untouched;
\* and a genre in which a page failed is finalized only when every page task
\* has finished and been collected, with the rows of every page that did not
\* fail in genre_data, after which the for loop goes on to the next genre.
C6_PageFailureContained ==
    [][ /\ ( /\ pc = "collect"
             /\ Len(collect_order') > Len(collect_order)
             /\ futures[collect_order'[Len(collect_order')]].exc )
           => /\ pc' = "collect"
              /\ genre_data' = genre_data
              /\ futures' = futures
              /\ work_queue' = work_queue
              /\ running' = running
        /\ ( /\ pc = "collect"
             /\ pc' # "collect"
             /\ SomePageFailed )
           => /\ pc' = NextGenre
              /\ gi' = gi + 1
              /\ \A p \in 1..total_pages :
                    /\ futures[p].state = "FINISHED"
                    /\ \E i \in 1..Len(collect_order) : collect_order[i] = p
                    /\ ~futures[p].exc =>
                         \A k \in 1..Len(futures[p].rows) :
                            \E j \in 1..Len(genre_data) :
                                genre_data[j] = futures[p].rows[k]
              /\ all_data' = all_data \o genre_data
      ]_vars

\* Reached: of three pages the first collected has failed, the other two
\* have been collected with their rows, and a further genre is to come.
C6_Witness ==
    /\ AllCollected
    /\ Len(futures) = 3
    /\ futures[collect_order[1]].exc
    /\ ~futures[collect_order[2]].exc
    /\ ~futures[collect_order[3]].exc
    /\ Len(genre_data) = 2 * MaxRows
    /\ gi < Len(genres)

\* C7: a genre whose total is None is passed over with no page task
\* dispatched and the for loop goes on; a genre with a total is finalized
\* with exactly the pages 1..n dispatched, n the least number of pages of
\* RESULTS_PER_PAGE results that hold the total, each page's task run once
\* and its result collected once.
C7_PagesDispatched ==
    [][ /\ ( /\ pc = "count"
             /\ pc' # "aborted"
             /\ total' = <<>> )
           => /\ pc' = NextGenre
              /\ gi' = gi + 1
              /\ futures' = <<>>
              /\ work_queue' = <<>>
              /\ running' = {}
              /\ pages_used' = pages_used
        /\ ( /\ pc = "count"
             /\ pc' # "aborted"
             /\ total' # <<>> )
           => pc' = "submit" /\ gi' = gi
        /\ GenreFinalized
           => LET n == Len(futures)
              IN  /\ total # <<>>
                  /\ n * 200 >= total[1]
                  /\ n = 0 \/ (n - 1) * 200 < total[1]
                  /\ IsPermutation(finish_order, n)
                  /\ IsPermutation(collect_order, n)
                  /\ work_queue = <<>>
      ]_vars

\* Reached: the first genre had no total and was passed over, the second
\* had 450 results and three pages.
C7_Witness ==
    /\ Len(hist) = 2
    /\ hist[1].total = <<>>
    /\ hist[1].npages = 0
    /\ hist[2].total = <<450>>
    /\ hist[2].npages = 3
    /\ pages_used = 3

\* C8: count discovery of a genre starts with no page task of an earlier
\* genre queued, running or uncollected, and with the genres before it all
\* finalized; all_data is the genre_data of the finalized genres one after
\* the other in discovery order, each holding rows of its own genre only.
C8_GenresInDiscoveryOrder ==
    /\ all_data = FlattenHist(hist)
    /\ \A i \in 1..Len(hist) :
         \A j \in 1..Len(hist[i].genre_data) : hist[i].genre_data[j][8] = genres[i]
    /\ pc \in {"count", "submit", "collect"} => Len(hist) = gi - 1
    /\ pc = "count" =>
         /\ futures = <<>>
         /\ work_queue = <<>>
         /\ running = {}
    /\ pc \in {"submit", "collect"} =>
         \A j \in 1..Len(genre_data) : genre_data[j][8] = genres[gi]

\* Reached: two genres are finalized, both with rows, the first one's pages
\* collected out of submission order.
C8_Witness ==
    /\ pc = "write"
    /\ Len(hist) = 2
    /\ Len(hist[1].genre_data) = 2 * MaxRows
    /\ hist[1].genre_data[1][2] = ScrapedRow("Action", 2, 1)[2]
    /\ Len(hist[2].genre_data) = MaxRows
    /\ all_data[Len(all_data)][8] = "Puzzle"

\* C9 as stated: once every page task of the genre is done and collected,
\* genre_data is the row lists of the tasks that did not fail, concatenated
\* in the order in which the tasks completed.
C9_RowsInCompletionOrder ==
    AllCollected => genre_data = RowsInOrder(finish_order, futures)

\* C9 as amended: genre_data is at every moment the row lists of the tasks
\* collected so far that did not fail, concatenated in the order of
\* collection, no row twice; once all are collected every page is in that
\* order once, the tasks found finished when as_completed started first (in
\* any order) and the others after them in the order in which they completed.
C9_RowsInCollectionOrder ==
    pc = "collect" =>
        /\ genre_data = RowsInOrder(collect_order, futures)
        /\ \A i, j \in 1..Len(genre_data) : genre_data[i] = genre_data[j] => i = j
        /\ AllCollected =>
             /\ IsPermutation(collect_order, Len(futures))
             /\ {collect_order[i] : i \in 1..Cardinality(early0)} = early0
             /\ SubSeq(collect_order, Cardinality(early0) + 1, Len(collect_order))
                  = SelectSeq(finish_order, LAMBDA p : p \notin early0)

\* Reached: three pages, two of them finished before as_completed started
\* and collected against their completion order, one after; two gave rows.
C9_Witness ==
    /\ AllCollected
    /\ Len(futures) = 3
    /\ Cardinality(early0) = 2
    /\ collect_order # finish_order
    /\ Len(genre_data) = 2 * MaxRows
    /\ SomePageFailed

\* C10: at most 2 page tasks are executing; those executing belong to the
\* genre the for loop is at; a dispatched task that is neither finished nor
\* executing waits in the pool's queue.
C10_BoundedConcurrency ==
    /\ Cardinality(running) <= 2
    /\ \A t \in running : t.g = gi /\ pc \in {"submit", "collect"}
    /\ \A i \in 1..Len(work_queue) : work_queue[i].g = gi
    /\ \A p \in 1..Len(futures) :
         /\ futures[p].state = "RUNNING" <=> [g |-> gi, page |-> p] \in running
         /\ futures[p].state = "PENDING"
              <=> \E i \in 1..Len(work_queue) : work_queue[i] = [g |-> gi, page |-> p]

\* Reached: two tasks of the second genre execute while a third waits.
C10_Witness ==
    /\ Cardinality(running) = 2
    /\ work_queue # <<>>
    /\ gi = 2

====
